---- MODULE Spec2Model ----
(***************************************************************************)
(* Model of the topic/question extraction scripts of the ai-tutor          *)
(* repository and of the React pages of its web application.               *)
(*                                                                         *)
(* A text is a sequence of one-character strings.  Offsets are 0-based     *)
(* as in Python: the character at offset o is t[o + 1].                    *)
(***************************************************************************)
EXTENDS Integers, Sequences, FiniteSets, TLC

VARIABLES
    ocr_text,          \* the OCR transcript handed to the extractor
    topics_from_csv,   \* the reference heading table: rows in table order
    pc,                \* position of the running script
    matches,           \* list(heading_pattern.finditer(ocr_text))
    topic_locations,   \* heading number -> start offset
    index,             \* number of reference rows already visited
    extracted_topics,  \* the TopicRecords appended so far
    spans,             \* (start_pos, end_pos) of each appended record
    missing,           \* expected heading numbers not located so far
    primary_missing,   \* the missing set reported by the primary pass
    primary_topics,    \* the TopicRecords handed to the fallback pass
    raw_text,          \* the OCR output before any normalization
    normalized,        \* the results of the normalizations applied so far
    questions,         \* the question records appended so far
    calls,             \* the finished invocations: arguments and return value
    files,             \* the PDF files os.walk yields: chapter and OCR text
    workers,           \* the state of each running main()
    question_bank,     \* the committed rows of the table question_bank
    writes,            \* the DELETE and INSERT statements executed so far
    explorer,          \* the state of the mounted SyllabusExplorer
    quizView,          \* the state of the QuizView inside SyllabusExplorer
    authApp,           \* AuthProvider, the router and AuthPage
    localStorage,      \* the keys of window.localStorage that are set
    solver,            \* the state of the mounted ImageSolver
    generator,         \* the state of the mounted ProblemGenerator
    dashboard          \* the state of the mounted Dashboard

vars == <<ocr_text, topics_from_csv, pc, matches, topic_locations, index,
          extracted_topics, spans, missing, primary_missing, primary_topics,
          raw_text, normalized, questions, calls, files, workers,
          question_bank, writes, explorer, quizView, authApp, localStorage,
          solver, generator, dashboard>>

\* the variables of the React pages
pageVars == <<explorer, quizView, authApp, localStorage, solver, generator,
              dashboard>>

\* the variables of main() and of the database
mainVars == <<files, workers, question_bank, writes>>

\* what extract_topics_and_questions does not touch
notGuided == <<missing, primary_missing, primary_topics, raw_text, normalized,
               calls, mainVars, pageVars>>

\* what the extraction engine does not touch
notEngine == <<raw_text, normalized, questions, calls, mainVars, pageVars>>

\* what the normalizer does not touch
notNormalizer == <<topics_from_csv, matches, topic_locations, index,
                   extracted_topics, spans, missing, primary_missing,
                   primary_topics, questions, calls, mainVars, pageVars>>

\* what extract_questions does not touch
notQuestions == <<topics_from_csv, topic_locations, index, extracted_topics,
                  missing, primary_missing, primary_topics, raw_text,
                  normalized, calls, mainVars, pageVars>>

\* the variables of the extraction functions
extractorVars == <<ocr_text, topics_from_csv, pc, matches, topic_locations, index,
                   extracted_topics, spans, missing, primary_missing,
                   primary_topics, raw_text, normalized, questions, calls>>

\* what main() does not touch
notMain == <<extractorVars, pageVars>>

\* the variables of the Python scripts, which no page touches
scriptVars == <<extractorVars, mainVars>>

-----------------------------------------------------------------------------
(* Bounds of the explored inputs *)

\* a text is the concatenation of at most MaxPieces pieces
MaxPieces == 4

\* a reference table has at most MaxRows rows
MaxRows == 2

-----------------------------------------------------------------------------
(* Input alphabet *)

N1 == <<"1">>
N2 == <<"2">>
N12 == <<"1", ".", "2">>

\* the heading numbers a reference table may list
HeadingNumbers == {N1, N2, N12}

\* a body line long enough to push what follows it near the end of the text
Filler == <<" ", "a", "a", "a", "a", "a", "a", "\n">>

Pieces == {<<"1">>, <<"2">>, <<".">>, <<"-">>, <<" ">>, <<"\n">>, <<"a">>, Filler}

RECURSIVE Flatten(_)
Flatten(ps) == IF ps = <<>> THEN <<>> ELSE Head(ps) \o Flatten(Tail(ps))

Texts == UNION {{Flatten(ps) : ps \in [1..k -> Pieces]} : k \in 1..MaxPieces}

\* the marker of the exercises section, as printed and in mixed case
Marker == <<"E", "X", "E", "R", "C", "I", "S", "E", "S">>
MarkerMixed == <<"E", "x", "e", "r", "c", "i", "s", "e", "s">>

\* the pieces of an exercises section: the start of a question line with the
\* number 1.1, 1.2 or 2., a dash with a body, a body character, a line break
\* and a second marker
QuestionPieces ==
    {<<"\n", "1", ".", "1", " ">>, <<"\n", "1", ".", "2", " ">>, <<"\n", "2", ".">>,
     <<"-", " ", "a">>, <<"a">>, <<"\n">>, MarkerMixed}

\* chapter texts with an exercises section: pieces, with or without the
\* marker in front
QuestionTexts ==
    UNION {{h \o Flatten(ps) : ps \in [1..k -> QuestionPieces], h \in {<<>>, Marker}} :
           k \in 1..MaxPieces}

TitleOf(num) == <<"T">> \o num

\* tables of distinct heading numbers, in every order
RefTables ==
    UNION {{[i \in 1..k |-> [heading_number |-> f[i], heading_text |-> TitleOf(f[i])]] :
              f \in {g \in [1..k -> HeadingNumbers] :
                        \A i, j \in 1..k : i # j => g[i] # g[j]}} :
           k \in 1..MaxRows}

-----------------------------------------------------------------------------
(* Python string and regular-expression primitives *)

IsDigit(c) == c \in {"1", "2"}

\* \s
IsSpace(c) == c \in {" ", "\n", "\t"}

\* t[a:b]
Slice(t, a, b) == SubSeq(t, a + 1, b)

Min(S) == CHOOSE x \in S : \A y \in S : x <= y

\* ^ under re.MULTILINE, at 1-based position i
LineStart(t, i) == i = 1 \/ t[i - 1] = "\n"

\* the literal n (re.escape) matches at position i
HasPrefixAt(t, i, n) ==
    /\ i + Len(n) - 1 <= Len(t)
    /\ \A k \in 1..Len(n) : t[i + k - 1] = n[k]

\* greedy \s* from position j: the first position after the run
RECURSIVE SpaceRunEnd(_, _)
SpaceRunEnd(t, j) ==
    IF j <= Len(t) /\ IsSpace(t[j]) THEN SpaceRunEnd(t, j + 1) ELSE j

RECURSIVE LStrip(_)
LStrip(s) == IF s # <<>> /\ IsSpace(Head(s)) THEN LStrip(Tail(s)) ELSE s

RECURSIVE RStrip(_)
RStrip(s) ==
    IF s # <<>> /\ IsSpace(s[Len(s)]) THEN RStrip(SubSeq(s, 1, Len(s) - 1)) ELSE s

\* str.strip()
Strip(s) == RStrip(LStrip(s))

-----------------------------------------------------------------------------
(* extract_topics_and_questions: the heading pattern *)

\* topic_numbers: the alternatives of the pattern, in table order
TopicNumbers(csv) == [i \in 1..Len(csv) |-> csv[i].heading_number]

\* the pattern without its trailing \s+
TailEndNoSpace(t, i, n) == i + Len(n)

\* what follows the numeral: \s+ ; the position after it, or 0 when it fails
TailEnd(t, i, n) ==
    LET j == i + Len(n)
        e == SpaceRunEnd(t, j)
    IN  IF e > j THEN e ELSE 0

\* the first alternative, from the k-th on, with (num)\s+ matching at i; 0 if none
RECURSIVE AltMatch(_, _, _, _)
AltMatch(t, i, nums, k) ==
    IF k > Len(nums) THEN 0
    ELSE IF HasPrefixAt(t, i, nums[k]) /\ TailEnd(t, i, nums[k]) # 0 THEN k
    ELSE AltMatch(t, i, nums, k + 1)

\* heading_pattern.finditer that reports the first number at offset 0 of any text
FindIterAtStart(t, nums, i) ==
    IF nums = <<>> THEN <<>> ELSE <<[num |-> nums[1], start |-> 0, end |-> 0]>>

\* heading_pattern.finditer(t) from position i on: the non-overlapping matches,
\* left to right, each [num = group(1), start = start(), end = end()]
RECURSIVE FindIter(_, _, _)
FindIter(t, nums, i) ==
    IF i > Len(t) THEN <<>>
    ELSE LET k == IF LineStart(t, i) THEN AltMatch(t, i, nums, 1) ELSE 0
         IN  IF k = 0 THEN FindIter(t, nums, i + 1)
             ELSE LET e == TailEnd(t, i, nums[k])
                  IN  <<[num |-> nums[k], start |-> i - 1, end |-> e - 1]>>
                          \o FindIter(t, nums, e)

-----------------------------------------------------------------------------
(* extract_topics_and_questions: locations and contents *)

EmptyDict == [n \in {} |-> 0]

\* the value of a page's variable while the page is not mounted
Unmounted == <<>>

\* no page of the web application is mounted
PagesIdle ==
    /\ explorer = Unmounted
    /\ quizView = Unmounted
    /\ authApp = Unmounted
    /\ localStorage = {}
    /\ solver = Unmounted
    /\ generator = Unmounted
    /\ dashboard = Unmounted

\* main() is not running
MainIdle ==
    /\ files = <<>>
    /\ workers = EmptyDict
    /\ question_bank = EmptyDict
    /\ writes = <<>>

\* no script is running: the browser side of the application is observed
ScriptsIdle ==
    /\ pc = "browser"
    /\ ocr_text = <<>>
    /\ topics_from_csv = <<>>
    /\ matches = <<>>
    /\ topic_locations = EmptyDict
    /\ index = 0
    /\ extracted_topics = <<>>
    /\ spans = <<>>
    /\ missing = {}
    /\ primary_missing = {}
    /\ primary_topics = <<>>
    /\ raw_text = <<>>
    /\ normalized = <<>>
    /\ questions = <<>>
    /\ calls = <<>>
    /\ MainIdle

\* a key already present keeps its value (first-match-wins)
DictKeepFirst(d, k, v) ==
    [x \in DOMAIN d \cup {k} |-> IF x \in DOMAIN d THEN d[x] ELSE v]

\* d[k] = v of a dict: a key already present is overwritten
DictSet(d, k, v) == [x \in DOMAIN d \cup {k} |-> IF x = k THEN v ELSE d[x]]

\* {match.group(1): match.start() for match in ms}
RECURSIVE DictFromMatches(_)
DictFromMatches(ms) ==
    IF ms = <<>> THEN EmptyDict
    ELSE LET last == ms[Len(ms)]
         IN  DictSet(DictFromMatches(SubSeq(ms, 1, Len(ms) - 1)), last.num, last.start)

\* the loop without its test next_pos > start_pos
EndPosAnyOrder(locs, start_pos, n) ==
    LET before == {locs[x] : x \in DOMAIN locs} \cap 0..(n - 1)
    IN  IF before = {} THEN n ELSE Min(before)

\* the loop over topic_locations.items(): the smallest location after start_pos,
\* or the length n of the text
EndPos(locs, start_pos, n) ==
    LET later == {locs[x] : x \in DOMAIN locs} \cap (start_pos + 1)..(n - 1)
    IN  IF later = {} THEN n ELSE Min(later)

\* the slice without .strip()
ContentNoStrip(t, start_pos, end_pos) == Slice(t, start_pos, end_pos)

\* ocr_text[start_pos:end_pos].strip()
Content(t, start_pos, end_pos) == Strip(Slice(t, start_pos, end_pos))

-----------------------------------------------------------------------------
(* The question patterns *)

\* re.IGNORECASE on the letters of the marker
Upper(c) ==
    CASE c = "e" -> "E" [] c = "x" -> "X" [] c = "r" -> "R"
      [] c = "c" -> "C" [] c = "i" -> "I" [] c = "s" -> "S"
      [] OTHER -> c

\* EXERCISES matches at position i, whatever the case of the letters
MarkerAt(t, i) ==
    /\ i + Len(Marker) - 1 <= Len(t)
    /\ \A k \in 1..Len(Marker) : Upper(t[i + k - 1]) = Marker[k]

\* re.search(r'EXERCISES', t, re.IGNORECASE): the position of the first
\* occurrence, 0 when there is none
SearchExercises(t) ==
    LET found == {i \in 1..Len(t) : MarkerAt(t, i)}
    IN  IF found = {} THEN 0 ELSE Min(found)

\* greedy \d+ from position j: the first position after the run
RECURSIVE DigitRunEnd(_, _)
DigitRunEnd(t, j) ==
    IF j <= Len(t) /\ IsDigit(t[j]) THEN DigitRunEnd(t, j + 1) ELSE j

\* \d+\.\d+ at position i: the position after it, 0 when it fails
DecimalEnd(t, i) ==
    LET d == DigitRunEnd(t, i)
    IN  IF d > i /\ d <= Len(t) /\ t[d] = "." /\ DigitRunEnd(t, d + 1) > d + 1
        THEN DigitRunEnd(t, d + 1) ELSE 0

\* \d+\. at position i: the position after it, 0 when it fails
OrdinalEnd(t, i) ==
    LET d == DigitRunEnd(t, i)
    IN  IF d > i /\ d <= Len(t) /\ t[d] = "." THEN d + 1 ELSE 0

\* greedy \s* or \s+ from j before a body of at least one character: the
\* position where the body starts (the last blank is given back when the
\* run reaches the end of the text)
BodyStart(t, j) ==
    LET e == SpaceRunEnd(t, j)
    IN  IF e <= Len(t) THEN e ELSE e - 1

\* (?=\n\d+\.\d+|\Z) at position b
InlineAhead(t, b) == b > Len(t) \/ (t[b] = "\n" /\ DecimalEnd(t, b + 1) # 0)

\* (?=\n\d+\.\d+|\n\d+\.|\n\n|$) at position b
DashedAhead(t, b) ==
    \/ b > Len(t)
    \/ b = Len(t) /\ t[b] = "\n"
    \/ t[b] = "\n" /\ OrdinalEnd(t, b + 1) # 0
    \/ t[b] = "\n" /\ t[b + 1] = "\n"

\* the lazy (.+?) of the inline pattern: the first position from b on where
\* its lookahead holds
RECURSIVE InlineBodyEnd(_, _)
InlineBodyEnd(t, b) == IF InlineAhead(t, b) THEN b ELSE InlineBodyEnd(t, b + 1)

\* the lazy (.+?) of the dashed pattern
RECURSIVE DashedBodyEnd(_, _)
DashedBodyEnd(t, b) == IF DashedAhead(t, b) THEN b ELSE DashedBodyEnd(t, b + 1)

NoMatch == [num |-> <<>>, text |-> <<>>, start |-> 0, end |-> 0]

\* (\d+\.\d+)\s+(.+?)(?=\n\d+\.\d+|\Z) with re.DOTALL at position i: the two
\* groups and the offsets of the match, NoMatch when it fails
InlineMatch(t, i) ==
    LET j == DecimalEnd(t, i)
        s == BodyStart(t, j)
    IN  IF j = 0 \/ s <= j \/ s > Len(t) THEN NoMatch
        ELSE LET b == InlineBodyEnd(t, s + 1)
             IN  [num |-> SubSeq(t, i, j - 1), text |-> SubSeq(t, s, b - 1),
                  start |-> i - 1, end |-> b - 1]

\* (\d+\.\d+|\d+\.)\s*-\s*(.+?)(?=\n\d+\.\d+|\n\d+\.|\n\n|$) with re.DOTALL
\* at position i
DashedMatch(t, i) ==
    LET j == IF DecimalEnd(t, i) # 0 THEN DecimalEnd(t, i) ELSE OrdinalEnd(t, i)
        d == SpaceRunEnd(t, j)
        s == BodyStart(t, d + 1)
    IN  IF j = 0 \/ d > Len(t) THEN NoMatch
        ELSE IF t[d] # "-" \/ s <= d \/ s > Len(t) THEN NoMatch
        ELSE LET b == DashedBodyEnd(t, s + 1)
             IN  [num |-> SubSeq(t, i, j - 1), text |-> SubSeq(t, s, b - 1),
                  start |-> i - 1, end |-> b - 1]

\* question_pattern.findall(t) from position i on, inline pattern
RECURSIVE InlineFindAll(_, _)
InlineFindAll(t, i) ==
    IF i > Len(t) THEN <<>>
    ELSE LET m == InlineMatch(t, i)
         IN  IF m = NoMatch THEN InlineFindAll(t, i + 1)
             ELSE <<m>> \o InlineFindAll(t, m.end + 1)

\* question_pat.findall(t) from position i on, dashed pattern
RECURSIVE DashedFindAll(_, _)
DashedFindAll(t, i) ==
    IF i > Len(t) THEN <<>>
    ELSE LET m == DashedMatch(t, i)
         IN  IF m = NoMatch THEN DashedFindAll(t, i + 1)
             ELSE <<m>> \o DashedFindAll(t, m.end + 1)

\* str.strip('.')
RECURSIVE StripDots(_)
StripDots(s) ==
    IF s # <<>> /\ Head(s) = "." THEN StripDots(Tail(s))
    ELSE IF s # <<>> /\ s[Len(s)] = "." THEN StripDots(SubSeq(s, 1, Len(s) - 1))
    ELSE s

\* the loop of extract_topics_and_questions over found_questions
InlineRecords(found) ==
    [k \in 1..Len(found) |->
        [question_number |-> found[k].num, question_text |-> Strip(found[k].text)]]

\* the loop over raw_questions that skips a number it has already stored
RECURSIVE DedupedRecords(_)
DedupedRecords(found) ==
    IF found = <<>> THEN <<>>
    ELSE LET before == DedupedRecords(SubSeq(found, 1, Len(found) - 1))
             last == found[Len(found)]
         IN  IF \E k \in 1..Len(before) :
                    before[k].question_number = StripDots(last.num)
             THEN before
             ELSE Append(before, [question_number |-> StripDots(last.num),
                                  question_text |-> Strip(last.text)])

\* the loop of extract_questions over raw_questions
DashedRecords(found) ==
    [k \in 1..Len(found) |->
        [question_number |-> StripDots(found[k].num),
         question_text |-> Strip(found[k].text)]]

\* the group (.+) of EXERCISES(.+) with re.DOTALL: the text after the first
\* marker; the pattern fails when nothing follows the marker
ExercisesGroup(t) ==
    LET p == SearchExercises(t)
    IN  IF p = 0 THEN <<>> ELSE SubSeq(t, p + Len(Marker), Len(t))

-----------------------------------------------------------------------------
(* extract_topics_and_questions as a state machine *)

\* the arguments: a chapter text with a reference table, a text with an
\* exercises section with a one-row table, or the empty text with any table,
\* the empty one included
InitGuided ==
    /\ \/ ocr_text \in Texts /\ topics_from_csv \in RefTables
       \/ /\ ocr_text \in QuestionTexts
          /\ topics_from_csv \in {r \in RefTables : Len(r) = 1}
       \/ ocr_text = <<>> /\ topics_from_csv \in RefTables \cup {<<>>}
    /\ pc = "find"
    /\ matches = <<>>
    /\ topic_locations = EmptyDict
    /\ index = 0
    /\ extracted_topics = <<>>
    /\ spans = <<>>
    /\ missing = {}
    /\ primary_missing = {}
    /\ primary_topics = <<>>
    /\ raw_text = <<>>
    /\ normalized = <<>>
    /\ questions = <<>>
    /\ calls = <<>>
    /\ MainIdle
    /\ PagesIdle

\* FindMatches without extracted_topics = []: the list outlives the call
FindMatchesKeeping ==
    /\ pc = "find"
    /\ matches' = FindIter(ocr_text, TopicNumbers(topics_from_csv), 1)
    /\ pc' = "locate"
    /\ UNCHANGED <<ocr_text, topics_from_csv, topic_locations, index, questions,
                   extracted_topics, spans>>
    /\ UNCHANGED notGuided

\* extracted_topics = []; heading_pattern = re.compile(...);
\* matches = list(finditer)
FindMatches ==
    /\ pc = "find"
    /\ extracted_topics' = <<>>
    /\ spans' = <<>>
    /\ matches' = FindIter(ocr_text, TopicNumbers(topics_from_csv), 1)
    /\ pc' = "locate"
    /\ UNCHANGED <<ocr_text, topics_from_csv, topic_locations, index, questions>>
    /\ UNCHANGED notGuided

\* topic_locations = {...}; the loop over the reference rows starts
RecordLocations ==
    /\ pc = "locate"
    /\ topic_locations' = DictFromMatches(matches)
    /\ index' = 0
    /\ pc' = "assign"
    /\ UNCHANGED <<ocr_text, topics_from_csv, matches, extracted_topics, spans,
                   questions>>
    /\ UNCHANGED notGuided

\* one pass of the loop over the reference rows, for a located heading
AssignLocated ==
    /\ pc = "assign"
    /\ index < Len(topics_from_csv)
    /\ LET row == topics_from_csv[index + 1]
           topic_num == row.heading_number
       IN  /\ topic_num \in DOMAIN topic_locations
           /\ LET start_pos == topic_locations[topic_num]
                  end_pos == EndPos(topic_locations, start_pos, Len(ocr_text))
              IN  /\ extracted_topics' = Append(extracted_topics,
                         [topic_number |-> topic_num,
                          title |-> row.heading_text,
                          content |-> Content(ocr_text, start_pos, end_pos)])
                  /\ spans' = Append(spans, [start |-> start_pos, end |-> end_pos])
    /\ index' = index + 1
    /\ UNCHANGED <<ocr_text, topics_from_csv, pc, matches, topic_locations,
                   questions>>
    /\ UNCHANGED notGuided

\* one pass of the loop for a heading with no location: nothing is appended
AssignSkipped ==
    /\ pc = "assign"
    /\ index < Len(topics_from_csv)
    /\ topics_from_csv[index + 1].heading_number \notin DOMAIN topic_locations
    /\ index' = index + 1
    /\ UNCHANGED <<ocr_text, topics_from_csv, pc, matches, topic_locations,
                   extracted_topics, spans, questions>>
    /\ UNCHANGED notGuided

\* the loop over the rows is exhausted
AssignDone ==
    /\ pc = "assign"
    /\ index = Len(topics_from_csv)
    /\ pc' = "topics_done"
    /\ UNCHANGED <<ocr_text, topics_from_csv, matches, topic_locations, index,
                   extracted_topics, spans, questions>>
    /\ UNCHANGED notGuided

\* the variant of QuestionsWithoutMarker that extracts without the marker
QuestionsIgnoringMarker ==
    /\ pc = "topics_done"
    /\ SearchExercises(ocr_text) = 0
    /\ questions' = InlineRecords(InlineFindAll(ocr_text, 1))
    /\ pc' = "returned"
    /\ UNCHANGED <<ocr_text, topics_from_csv, matches, topic_locations, index,
                   extracted_topics, spans>>
    /\ UNCHANGED notGuided

\* questions = []; re.search finds no marker: the function returns
QuestionsWithoutMarker ==
    /\ pc = "topics_done"
    /\ SearchExercises(ocr_text) = 0
    /\ questions' = <<>>
    /\ pc' = "returned"
    /\ UNCHANGED <<ocr_text, topics_from_csv, matches, topic_locations, index,
                   extracted_topics, spans>>
    /\ UNCHANGED notGuided

\* questions = []; the marker is found: the questions of the text from the
\* marker on are appended, and the function returns
QuestionsFromExercises ==
    /\ pc = "topics_done"
    /\ SearchExercises(ocr_text) # 0
    /\ LET exercises_text == SubSeq(ocr_text, SearchExercises(ocr_text), Len(ocr_text))
           found_questions == InlineFindAll(exercises_text, 1)
       IN  questions' = <<>> \o InlineRecords(found_questions)
    /\ pc' = "returned"
    /\ UNCHANGED <<ocr_text, topics_from_csv, matches, topic_locations, index,
                   extracted_topics, spans>>
    /\ UNCHANGED notGuided

NextGuided ==
    \/ FindMatches \/ RecordLocations \/ AssignLocated \/ AssignSkipped \/ AssignDone
    \/ QuestionsWithoutMarker \/ QuestionsFromExercises

SpecGuided == InitGuided /\ [][NextGuided]_vars

TopicsReturned == pc = "topics_done"

Returned == pc = "returned"

-----------------------------------------------------------------------------
(* extract_topics_and_questions called several times by one script *)

\* a script makes at most MaxCalls calls
MaxCalls == 3

\* the arguments of the calls: a text with a heading and a question, a text
\* with another heading, the empty text; the tables that list 1.2 first
SessionTexts ==
    {Marker \o <<"\n", "1", ".", "2", " ", "a">>, <<"2", " ", "a">>, <<>>}

SessionTables == {r \in RefTables : r[1].heading_number = N12}

InitSession ==
    /\ pc = "idle"
    /\ ocr_text = <<>>
    /\ topics_from_csv = <<>>
    /\ matches = <<>>
    /\ topic_locations = EmptyDict
    /\ index = 0
    /\ extracted_topics = <<>>
    /\ spans = <<>>
    /\ missing = {}
    /\ primary_missing = {}
    /\ primary_topics = <<>>
    /\ raw_text = <<>>
    /\ normalized = <<>>
    /\ questions = <<>>
    /\ calls = <<>>
    /\ MainIdle
    /\ PagesIdle

\* topics, questions = extract_topics_and_questions(ocr_text, chapter_topics_df):
\* the call; what earlier calls left behind is still there
Call ==
    /\ pc = "idle"
    /\ Len(calls) < MaxCalls
    /\ ocr_text' \in SessionTexts
    /\ topics_from_csv' \in SessionTables
    /\ pc' = "find"
    /\ UNCHANGED <<matches, topic_locations, index, extracted_topics, spans,
                   questions, calls>>
    /\ UNCHANGED <<missing, primary_missing, primary_topics, raw_text, normalized,
                   mainVars, pageVars>>

\* the call returns its two lists to the caller
Return ==
    /\ pc = "returned"
    /\ calls' = Append(calls, [ocr_text |-> ocr_text,
                               topics_from_csv |-> topics_from_csv,
                               topics |-> extracted_topics,
                               questions |-> questions])
    /\ pc' = "idle"
    /\ UNCHANGED <<ocr_text, topics_from_csv, matches, topic_locations, index,
                   extracted_topics, spans, questions>>
    /\ UNCHANGED <<missing, primary_missing, primary_topics, raw_text, normalized,
                   mainVars, pageVars>>

NextSession == Call \/ NextGuided \/ Return

SpecSession == InitSession /\ [][NextSession]_vars

-----------------------------------------------------------------------------
(* extract_questions as a state machine *)

InitQuestions ==
    /\ ocr_text \in QuestionTexts
    /\ pc = "exercises"
    /\ topics_from_csv = <<>>
    /\ matches = <<>>
    /\ topic_locations = EmptyDict
    /\ index = 0
    /\ extracted_topics = <<>>
    /\ spans = <<>>
    /\ missing = {}
    /\ primary_missing = {}
    /\ primary_topics = <<>>
    /\ raw_text = <<>>
    /\ normalized = <<>>
    /\ questions = <<>>
    /\ calls = <<>>
    /\ MainIdle
    /\ PagesIdle

\* exercises_pat finds nothing: return []
NoExercisesSection ==
    /\ pc = "exercises"
    /\ ExercisesGroup(ocr_text) = <<>>
    /\ questions' = <<>>
    /\ pc' = "returned"
    /\ UNCHANGED <<ocr_text, matches, spans>>
    /\ UNCHANGED notQuestions

\* raw_questions = question_pat.findall(exercises_text) and the loop over it;
\* spans keeps where in exercises_text each match was found
ExtractQuestions ==
    /\ pc = "exercises"
    /\ ExercisesGroup(ocr_text) # <<>>
    /\ LET raw_questions == DashedFindAll(ExercisesGroup(ocr_text), 1)
       IN  /\ matches' = raw_questions
           /\ questions' = DashedRecords(raw_questions)
           /\ spans' = [k \in 1..Len(raw_questions) |->
                            [start |-> raw_questions[k].start,
                             end |-> raw_questions[k].end]]
    /\ pc' = "returned"
    /\ UNCHANGED ocr_text
    /\ UNCHANGED notQuestions

NextQuestions == NoExercisesSection \/ ExtractQuestions

SpecQuestions == InitQuestions /\ [][NextQuestions]_vars

-----------------------------------------------------------------------------
(* Properties of extract_topics_and_questions *)

Located == pc \in {"assign", "topics_done"}

IsNumeralChar(c) == IsDigit(c) \/ c = "."

SpanIndices == 1..Len(spans)

FirstMatchWins ==
    Located =>
        \A n \in DOMAIN topic_locations :
            topic_locations[n] =
                Min({matches[i].start : i \in {j \in 1..Len(matches) : matches[j].num = n}})

\* C4 as stated: the returned records are in ascending order of start offset.
DocumentOrder ==
    TopicsReturned =>
        \A i, j \in SpanIndices : i < j => spans[i].start < spans[j].start

\* C5: a heading number is only located where the numeral written in the text
\* is that number itself: the match starts a line, and the character after the
\* matched number is neither a digit nor a dot, so the number is not a part of
\* a longer numeral.
NoMatchInsideLongerNumeral ==
    (pc # "find") =>
        /\ \A i \in 1..Len(matches) :
               LET m == matches[i]
                   after == m.start + Len(m.num) + 1
               IN  /\ HasPrefixAt(ocr_text, m.start + 1, m.num)
                   /\ m.start = 0 \/ ~IsNumeralChar(ocr_text[m.start])
                   /\ after > Len(ocr_text) \/ ~IsNumeralChar(ocr_text[after])
        /\ \A n \in DOMAIN topic_locations :
               \E i \in 1..Len(matches) :
                   matches[i].num = n /\ matches[i].start = topic_locations[n]

\* C5 witness: the text starts with "1.2 ": the table's "1" stands at a line
\* start inside the longer numeral "1.2", its "2" stands inside it after the
\* dot, and neither is located.
NoMatchInsideLongerNumeralWitness ==
    /\ TopicsReturned
    /\ HasPrefixAt(ocr_text, 1, <<"1", ".", "2", " ">>)
    /\ \E i, j \in 1..Len(topics_from_csv) :
           /\ topics_from_csv[i].heading_number = N1
           /\ topics_from_csv[j].heading_number = N2
    /\ topic_locations = EmptyDict

\* the ways OCR writes the heading number n: each dot as a dot, a dash or a
\* space, or n followed by a dot
RECURSIVE DotsAs(_, _)
DotsAs(n, d) ==
    IF n = <<>> THEN <<>>
    ELSE <<IF Head(n) = "." THEN d ELSE Head(n)>> \o DotsAs(Tail(n), d)

Renderings(n) == {DotsAs(n, d) : d \in {".", "-", " "}} \cup {n \o <<".">>}

\* C6 as stated: a line that starts with a rendering of the reference number
\* "1.2" (as "1.2", "1-2", "1 2" or "1.2."), followed by whitespace and
\* matched as no other reference number, locates "1.2".
DelimiterTolerance ==
    Located =>
        \A r \in 1..Len(topics_from_csv) :
            LET n == topics_from_csv[r].heading_number
                nums == TopicNumbers(topics_from_csv)
            IN  \A w \in Renderings(n) :
                    \A i \in 1..Len(ocr_text) :
                        ( /\ Len(n) > 1
                          /\ LineStart(ocr_text, i)
                          /\ HasPrefixAt(ocr_text, i, w)
                          /\ i + Len(w) <= Len(ocr_text)
                          /\ IsSpace(ocr_text[i + Len(w)])
                          /\ AltMatch(ocr_text, i, nums, 1) \in {0, r} )
                        => n \in DOMAIN topic_locations

\* C7 as stated: no recorded location, and so no returned record, starts at or
\* beyond 0.8 * len(text).
BodyFractionExclusion ==
    Located =>
        /\ \A n \in DOMAIN topic_locations :
               5 * topic_locations[n] < 4 * Len(ocr_text)
        /\ \A i \in SpanIndices : 5 * spans[i].start < 4 * Len(ocr_text)

-----------------------------------------------------------------------------
(* main(): the loop over the PDF files and the table question_bank *)

\* a main() processes at most MaxFiles files
MaxFiles == 2

\* two scripts started side by side
TwoProcesses == {"main", "second"}

\* the running scripts: main() is called once, and runs in one thread
Processes == {"main"}

\* the ids of chapter_map; NoChapter stands for a name chapter_map lacks
Chapters == {"c1", "c2"}
NoChapter == "none"

\* the OCR texts of the files: one question, two questions, no exercises
ChapterTexts ==
    {Marker \o <<"\n", "1", ".", "1", " ", "-", " ", "a">>,
     Marker \o <<"\n", "1", ".", "1", " ", "-", " ", "a", "\n", "2", ".", "-", " ", "a">>,
     <<"a">>}

\* the files os.walk yields, in its order
FileLists ==
    UNION {[1..k -> ([chapter_id : Chapters, text : ChapterTexts]
                       \cup {[chapter_id |-> NoChapter, text |-> <<"a">>]})] :
           k \in 1..MaxFiles}

\* a row of question_bank
Row(chapter_id, q) ==
    [chapter_id |-> chapter_id, question_number |-> q.question_number,
     question_text |-> q.question_text]

OldQuestion == [question_number |-> <<"0">>, question_text |-> <<"o">>]

\* what question_bank holds when the script starts
InitialBanks ==
    {<<>>, <<Row("c1", OldQuestion)>>, <<Row("c1", OldQuestion), Row("c2", OldQuestion)>>}

\* the rows of table whose chapter_id is c
RowsOf(table, c) == SelectSeq(table, LAMBDA r : r.chapter_id = c)

\* DELETE FROM question_bank WHERE chapter_id = c
DeleteChapter(table, c) == SelectSeq(table, LAMBDA r : r.chapter_id # c)

\* the value extract_questions returns
ExtractQuestionsOf(t) ==
    IF ExercisesGroup(t) = <<>> THEN <<>>
    ELSE DashedRecords(DashedFindAll(ExercisesGroup(t), 1))

\* conn = psycopg2.connect(...): a main() before its first file; rows is what
\* the statements of its open transaction see, ok whether it can still commit
InitMain ==
    /\ files \in FileLists
    /\ question_bank \in InitialBanks
    /\ workers = [w \in Processes |->
                     [pc |-> "walk", file |-> 0, chapter_id |-> NoChapter,
                      questions |-> <<>>, index |-> 0,
                      rows |-> question_bank, ok |-> TRUE]]
    /\ writes = <<>>
    /\ ocr_text = <<>>
    /\ topics_from_csv = <<>>
    /\ pc = "main"
    /\ matches = <<>>
    /\ topic_locations = EmptyDict
    /\ index = 0
    /\ extracted_topics = <<>>
    /\ spans = <<>>
    /\ missing = {}
    /\ primary_missing = {}
    /\ primary_topics = <<>>
    /\ raw_text = <<>>
    /\ normalized = <<>>
    /\ questions = <<>>
    /\ calls = <<>>
    /\ PagesIdle

\* the next file has no chapter in chapter_map: continue
SkipFile(w) ==
    LET me == workers[w]
    IN  /\ me.pc = "walk"
        /\ me.file < Len(files)
        /\ files[me.file + 1].chapter_id = NoChapter
        /\ workers' = [workers EXCEPT ![w].file = me.file + 1]
        /\ UNCHANGED <<files, question_bank, writes>>
        /\ UNCHANGED notMain

\* the next file: OCR, extract_questions, and on to the database upload
ProcessFile(w) ==
    LET me == workers[w]
    IN  /\ me.pc = "walk"
        /\ me.file < Len(files)
        /\ files[me.file + 1].chapter_id # NoChapter
        /\ workers' = [workers EXCEPT
                          ![w].file = me.file + 1,
                          ![w].chapter_id = files[me.file + 1].chapter_id,
                          ![w].questions = ExtractQuestionsOf(files[me.file + 1].text),
                          ![w].pc = "delete"]
        /\ UNCHANGED <<files, question_bank, writes>>
        /\ UNCHANGED notMain

\* pdf_to_ocr_text or the DELETE raises: the handler of main() prints the
\* error and the connection is closed without a commit
CriticalError(w) ==
    LET me == workers[w]
    IN  /\ \/ me.pc = "walk" /\ me.file < Len(files)
                /\ files[me.file + 1].chapter_id # NoChapter
           \/ me.pc = "delete"
        /\ workers' = [workers EXCEPT ![w].pc = "closed", ![w].rows = question_bank]
        /\ UNCHANGED <<files, question_bank, writes>>
        /\ UNCHANGED notMain

\* insert_questions_into_db: the DELETE of the chapter's rows
DeleteQuestions(w) ==
    LET me == workers[w]
    IN  /\ me.pc = "delete"
        /\ me.ok
        /\ workers' = [workers EXCEPT
                          ![w].rows = DeleteChapter(me.rows, me.chapter_id),
                          ![w].index = 0,
                          ![w].pc = "insert"]
        /\ writes' = Append(writes, [worker |-> w, file |-> me.file,
                                      chapter_id |-> me.chapter_id, op |-> "delete"])
        /\ UNCHANGED <<files, question_bank>>
        /\ UNCHANGED notMain

\* insert_questions_into_db: the INSERT of the next question succeeds
InsertQuestion(w) ==
    LET me == workers[w]
    IN  /\ me.pc = "insert"
        /\ me.index < Len(me.questions)
        /\ me.ok
        /\ workers' = [workers EXCEPT
                          ![w].rows = Append(me.rows,
                                             Row(me.chapter_id, me.questions[me.index + 1])),
                          ![w].index = me.index + 1]
        /\ writes' = Append(writes, [worker |-> w, file |-> me.file,
                                      chapter_id |-> me.chapter_id, op |-> "insert"])
        /\ UNCHANGED <<files, question_bank>>
        /\ UNCHANGED notMain

\* insert_questions_into_db: the INSERT raises, the except branch prints the
\* error and the loop goes on; the transaction is left usable or aborted
InsertFails(w) ==
    LET me == workers[w]
    IN  /\ me.pc = "insert"
        /\ me.index < Len(me.questions)
        /\ \E usable \in BOOLEAN :
               workers' = [workers EXCEPT
                              ![w].index = me.index + 1,
                              ![w].ok = me.ok /\ usable]
        /\ UNCHANGED <<files, question_bank, writes>>
        /\ UNCHANGED notMain

\* conn.commit() after the loop over the questions: an aborted transaction
\* is rolled back by the server
Commit(w) ==
    LET me == workers[w]
        saved == IF me.ok THEN me.rows ELSE question_bank
    IN  /\ me.pc = "insert"
        /\ me.index = Len(me.questions)
        /\ question_bank' = saved
        /\ workers' = [workers EXCEPT ![w].rows = saved, ![w].ok = TRUE,
                                      ![w].pc = "walk"]
        /\ UNCHANGED <<files, writes>>
        /\ UNCHANGED notMain

\* os.walk is exhausted: cursor.close(), conn.close()
CloseConnection(w) ==
    LET me == workers[w]
    IN  /\ me.pc = "walk"
        /\ me.file = Len(files)
        /\ workers' = [workers EXCEPT ![w].pc = "closed"]
        /\ UNCHANGED <<files, question_bank, writes>>
        /\ UNCHANGED notMain

NextMain ==
    \E w \in Processes :
        \/ SkipFile(w) \/ ProcessFile(w) \/ CriticalError(w) \/ DeleteQuestions(w)
        \/ InsertQuestion(w) \/ InsertFails(w) \/ Commit(w) \/ CloseConnection(w)

SpecMain == InitMain /\ [][NextMain]_vars

\* the rows the batch qs of chapter c makes
BatchRows(c, qs) == [k \in 1..Len(qs) |-> Row(c, qs[k])]

\* C16 as stated: when the processing of a chapter ends with its commit, the
\* committed rows of that chapter are exactly the rows of the extracted
\* batch, in its order, and the committed rows of every other chapter are
\* what they were.
ReplaceSemantics ==
    [][\A w \in Processes :
           (workers[w].pc = "insert" /\ workers'[w].pc = "walk") =>
               /\ RowsOf(question_bank', workers[w].chapter_id) =
                      BatchRows(workers[w].chapter_id, workers[w].questions)
               /\ \A c \in Chapters \ {workers[w].chapter_id} :
                      RowsOf(question_bank', c) = RowsOf(question_bank, c)]_vars

\* the file whose processing made the k-th write
RunOf(k) == <<writes[k].worker, writes[k].file>>

-----------------------------------------------------------------------------
(* Properties of the question extraction *)

N11 == <<"1", ".", "1">>

\* a question on its own line: a line break, the number, a space, the body "a"
QuestionLine(num) == <<"\n">> \o num \o <<" ", "a">>

\* the text holds the marker in some letter case
ContainsMarker(t) == \E i \in 1..Len(t) : MarkerAt(t, i)

\* C12 as stated: for the text "EXERCISES", then two lines "<number> a" with
\* numbers of the form digits.digits, the result is one record per line, with
\* the number and the trimmed body.
QuestionsOnOwnLines ==
    \A qa, qb \in {N11, N12} :
        (Returned /\ ocr_text = Marker \o QuestionLine(qa) \o QuestionLine(qb)) =>
            questions = <<[question_number |-> qa, question_text |-> <<"a">>],
                          [question_number |-> qb, question_text |-> <<"a">>]>>

\* C13: when the text holds the marker EXERCISES in no letter case, the step
\* that follows the topic loop returns an empty question list and leaves the
\* extracted topics as they are; and the function returns, it does not stop
\* with an error.
NoMarkerNoQuestions ==
    [][(pc = "topics_done" /\ ~ContainsMarker(ocr_text)) =>
           /\ pc' = "returned"
           /\ questions' = <<>>
           /\ extracted_topics' = extracted_topics]_vars

\* C13 witness: a text without the marker that holds a heading and a line of
\* the form of a question; the function has returned a topic and no question.
NoMarkerNoQuestionsWitness ==
    /\ Returned
    /\ ~ContainsMarker(ocr_text)
    /\ InlineFindAll(ocr_text, 1) # <<>>
    /\ extracted_topics # <<>>
    /\ questions = <<>>

\* C14: extract_questions returns one record for every match of the question
\* pattern in the exercises text, in the order of the matches in the text:
\* the k-th record is made of the k-th match, the matches lie one after the
\* other, and no position where the pattern matches is left outside them.
QuestionsInTextOrder ==
    (Returned /\ ExercisesGroup(ocr_text) # <<>>) =>
        LET ex == ExercisesGroup(ocr_text)
        IN  /\ Len(questions) = Len(spans)
            /\ \A k \in 1..Len(spans) :
                   LET m == DashedMatch(ex, spans[k].start + 1)
                   IN  /\ m # NoMatch
                       /\ m.end = spans[k].end
                       /\ questions[k].question_number = StripDots(m.num)
                       /\ questions[k].question_text = Strip(m.text)
            /\ \A k \in 1..(Len(spans) - 1) : spans[k].end <= spans[k + 1].start
            /\ \A i \in 1..Len(ex) :
                   DashedMatch(ex, i) # NoMatch =>
                       \E k \in 1..Len(spans) : spans[k].start < i /\ i <= spans[k].end

\* C14 witness: the same question number twice, and both records returned.
QuestionsInTextOrderWitness ==
    /\ Returned
    /\ Len(questions) = 2
    /\ questions[1].question_number = questions[2].question_number
    /\ spans[1].start < spans[2].start

\* C15: for the empty text extract_topics_and_questions returns an empty
\* topic list and an empty question list, whatever the reference table, and
\* it does not stop before it returns.
EmptyTextEmptyResults ==
    ocr_text = <<>> =>
        /\ Returned => (extracted_topics = <<>> /\ questions = <<>>)
        /\ ~Returned => ENABLED NextGuided

\* C15 witness: the function has returned for the empty text and a reference
\* table of two rows.
EmptyTextEmptyResultsWitness ==
    /\ Returned
    /\ ocr_text = <<>>
    /\ Len(topics_from_csv) = 2

\* C18: two finished calls of extract_topics_and_questions with the same text
\* and the same reference table have returned the same topic list and the
\* same question list, whatever calls came before or between them.
Stateless ==
    \A i, j \in 1..Len(calls) :
        ( /\ calls[i].ocr_text = calls[j].ocr_text
          /\ calls[i].topics_from_csv = calls[j].topics_from_csv )
        => /\ calls[i].topics = calls[j].topics
           /\ calls[i].questions = calls[j].questions

\* C18 witness: three calls; the first and the third have the same arguments
\* and return a topic and a question; the second had another text and
\* returned another topic and no question.
StatelessWitness ==
    /\ Len(calls) = 3
    /\ calls[1].ocr_text = calls[3].ocr_text
    /\ calls[1].topics_from_csv = calls[3].topics_from_csv
    /\ calls[2].ocr_text # calls[1].ocr_text
    /\ calls[1].topics # <<>> /\ calls[1].questions # <<>>
    /\ calls[2].topics # <<>> /\ calls[2].topics # calls[1].topics
    /\ calls[2].questions = <<>>

-----------------------------------------------------------------------------
(* The normalizer: hyphen removal of pdf_to_ocr_text, then the whitespace     *)
(* normalization of the specification's section 4.1                          *)

\* text.replace('-\n', ''): the occurrences found left to right, not rescanned
RECURSIVE RemoveHyphenBreaks(_)
RemoveHyphenBreaks(t) ==
    IF t = <<>> THEN <<>>
    ELSE IF Len(t) >= 2 /\ t[1] = "-" /\ t[2] = "\n"
         THEN RemoveHyphenBreaks(SubSeq(t, 3, Len(t)))
         ELSE <<t[1]>> \o RemoveHyphenBreaks(Tail(t))

\* whitespace other than a newline
IsBlank(c) == IsSpace(c) /\ c # "\n"

RECURSIVE DropBlanks(_)
DropBlanks(t) == IF t # <<>> /\ IsBlank(Head(t)) THEN DropBlanks(Tail(t)) ELSE t

\* every maximal run of non-newline whitespace becomes one space
RECURSIVE CollapseSpaces(_)
CollapseSpaces(t) ==
    IF t = <<>> THEN <<>>
    ELSE IF IsBlank(Head(t)) THEN <<" ">> \o CollapseSpaces(DropBlanks(t))
    ELSE <<Head(t)>> \o CollapseSpaces(Tail(t))

\* every whitespace run that holds a newline becomes one newline
RECURSIVE CollapseNewlines(_)
CollapseNewlines(t) ==
    IF t = <<>> THEN <<>>
    ELSE LET e == SpaceRunEnd(t, 1)
         IN  IF \E k \in 1..(e - 1) : t[k] = "\n"
             THEN <<"\n">> \o CollapseNewlines(SubSeq(t, e, Len(t)))
             ELSE <<Head(t)>> \o CollapseNewlines(Tail(t))

\* the two collapsing steps without the final trim of the whole string
CollapseOnly(t) == CollapseNewlines(CollapseSpaces(t))

\* normalize of section 4.1, without the hyphen removal
NormalizeWhitespaceOf(t) == Strip(CollapseNewlines(CollapseSpaces(t)))

InitNormalizer ==
    /\ raw_text \in Texts
    /\ ocr_text = raw_text
    /\ pc = "hyphens"
    /\ normalized = <<>>
    /\ topics_from_csv = <<>>
    /\ matches = <<>>
    /\ topic_locations = EmptyDict
    /\ index = 0
    /\ extracted_topics = <<>>
    /\ spans = <<>>
    /\ missing = {}
    /\ primary_missing = {}
    /\ primary_topics = <<>>
    /\ questions = <<>>
    /\ calls = <<>>
    /\ MainIdle
    /\ PagesIdle

\* the hyphen removal applied to the OCR output
RemoveHyphens ==
    /\ pc = "hyphens"
    /\ ocr_text' = RemoveHyphenBreaks(ocr_text)
    /\ pc' = "whitespace"
    /\ UNCHANGED <<raw_text, normalized>>
    /\ UNCHANGED notNormalizer

\* the whitespace normalization; the result is then normalized once more
NormalizeWhitespace ==
    /\ pc = "whitespace"
    /\ ocr_text' = NormalizeWhitespaceOf(ocr_text)
    /\ normalized' = Append(normalized, ocr_text')
    /\ pc' = IF Len(normalized) = 0 THEN "hyphens" ELSE "normalized"
    /\ UNCHANGED raw_text
    /\ UNCHANGED notNormalizer

NextNormalizer == RemoveHyphens \/ NormalizeWhitespace

SpecNormalizer == InitNormalizer /\ [][NextNormalizer]_vars

\* C10 as stated: normalizing the result of a normalization changes nothing.
NormalizeIdempotent ==
    Len(normalized) = 2 => normalized[2] = normalized[1]

\* the first position from i on that holds a newline, Len(t) + 1 if none
RECURSIVE LineEnd(_, _)
LineEnd(t, i) == IF i > Len(t) \/ t[i] = "\n" THEN i ELSE LineEnd(t, i + 1)

\* C11: every result of normalize has no two adjacent horizontal whitespace
\* characters, no line that is empty or holds only whitespace, and neither
\* starts nor ends with a whitespace character.
NormalizedTextInvariants ==
    \A r \in 1..Len(normalized) :
        LET t == normalized[r]
        IN  /\ \A k \in 1..(Len(t) - 1) : ~(IsBlank(t[k]) /\ IsBlank(t[k + 1]))
            /\ \A i \in 1..(Len(t) + 1) :
                   (t # <<>> /\ LineStart(t, i)) =>
                       \E k \in i..(LineEnd(t, i) - 1) : ~IsSpace(t[k])
            /\ t # <<>> => (~IsSpace(t[1]) /\ ~IsSpace(t[Len(t)]))

\* C11 witness: the raw text starts with two blanks and holds a line break
\* followed by a blank; the result of its normalization still has two lines.
NormalizedTextInvariantsWitness ==
    /\ Len(normalized) >= 1
    /\ HasPrefixAt(raw_text, 1, <<" ", " ">>)
    /\ \E k \in 1..(Len(raw_text) - 1) : raw_text[k] = "\n" /\ IsBlank(raw_text[k + 1])
    /\ \E k \in 1..Len(normalized[1]) : normalized[1][k] = "\n"

-----------------------------------------------------------------------------
(* The extraction engine of the specification's sections 4.2 to 4.5:          *)
(* pattern builder, primary pass, segmentation and fallback recovery         *)

\* a delimiter written in place of a dot of the number: dot, dash or space
IsNumeralDelimiter(c) == c \in {".", "-", " "}

\* the optional delimiter after the number: dot, dash or whitespace
IsTrailingDelimiter(c) == c \in {".", "-"} \/ IsSpace(c)

\* the number n as rendered at position i: digits as written, each dot as a delimiter
RenderedAt(t, i, n) ==
    /\ i + Len(n) - 1 <= Len(t)
    /\ \A k \in 1..Len(n) :
           IF n[k] = "." THEN IsNumeralDelimiter(t[i + k - 1]) ELSE t[i + k - 1] = n[k]

\* the match must end at whitespace, a period or the end of the line
EndsAt(t, j) == j > Len(t) \/ IsSpace(t[j]) \/ t[j] = "."

\* the pattern of the number n at position i: the position after the match, 0 if none
NumberMatchEnd(t, i, n) ==
    LET j == i + Len(n)
    IN  IF ~(LineStart(t, i) /\ RenderedAt(t, i, n)) THEN 0
        ELSE IF j <= Len(t) /\ IsTrailingDelimiter(t[j]) /\ EndsAt(t, j + 1) THEN j + 1
        ELSE IF EndsAt(t, j) THEN j
        ELSE 0

\* the alternation of the per-number patterns: the first number, from the k-th
\* on, whose pattern matches at i; 0 if none
RECURSIVE MatcherAlt(_, _, _, _)
MatcherAlt(t, i, nums, k) ==
    IF k > Len(nums) THEN 0
    ELSE IF NumberMatchEnd(t, i, nums[k]) # 0 THEN k
    ELSE MatcherAlt(t, i, nums, k + 1)

\* all matches of the matcher over t from position i on, left to right; num is
\* the canonical heading number of the matched numeral
RECURSIVE ScanMatches(_, _, _)
ScanMatches(t, nums, i) ==
    IF i > Len(t) THEN <<>>
    ELSE LET k == MatcherAlt(t, i, nums, 1)
         IN  IF k = 0 THEN ScanMatches(t, nums, i + 1)
             ELSE <<[num |-> nums[k], start |-> i - 1]>>
                      \o ScanMatches(t, nums, NumberMatchEnd(t, i, nums[k]))

\* a match at or beyond body_fraction * len(text), body_fraction = 0.8
InBackMatter(start, n) == 5 * start >= 4 * n

\* extract_primary: matches in the back matter are discarded, and of the others
\* the first one of each heading number is kept
RECURSIVE ExtractPrimary(_, _)
ExtractPrimary(ms, n) ==
    IF ms = <<>> THEN EmptyDict
    ELSE LET last == ms[Len(ms)]
             prev == ExtractPrimary(SubSeq(ms, 1, Len(ms) - 1), n)
         IN  IF InBackMatter(last.start, n) THEN prev
             ELSE DictKeepFirst(prev, last.num, last.start)

\* the expected heading numbers
Expected(csv) == {csv[i].heading_number : i \in 1..Len(csv)}

\* the title of the reference table for a heading number, empty when absent
TitleLookup(csv, num) ==
    IF \E i \in 1..Len(csv) : csv[i].heading_number = num
    THEN csv[CHOOSE i \in 1..Len(csv) :
                 /\ csv[i].heading_number = num
                 /\ \A j \in 1..(i - 1) : csv[j].heading_number # num].heading_text
    ELSE <<>>

\* the located heading numbers of S by ascending start offset
RECURSIVE SortByOffset(_, _)
SortByOffset(locs, S) ==
    IF S = {} THEN <<>>
    ELSE LET first == CHOOSE x \in S : \A y \in S : locs[x] <= locs[y]
         IN  <<first>> \o SortByOffset(locs, S \ {first})

\* segment: the spans [this.start_offset, next.start_offset), the last one to len(text)
SegmentSpans(locs, n) ==
    LET order == SortByOffset(locs, DOMAIN locs)
    IN  [i \in 1..Len(order) |->
            [start |-> locs[order[i]],
             end |-> IF i < Len(order) THEN locs[order[i + 1]] ELSE n]]

\* segment that returns nothing when an expected heading was not located
SegmentTopicsAborting(t, locs, csv) ==
    IF Expected(csv) \ DOMAIN locs # {} THEN <<>>
    ELSE LET order == SortByOffset(locs, DOMAIN locs)
             sp == SegmentSpans(locs, Len(t))
         IN  [i \in 1..Len(order) |->
                 [topic_number |-> order[i],
                  title |-> TitleLookup(csv, order[i]),
                  content |-> Slice(t, sp[i].start, sp[i].end)]]

\* segment: the TopicRecords in document order
SegmentTopics(t, locs, csv) ==
    LET order == SortByOffset(locs, DOMAIN locs)
        sp == SegmentSpans(locs, Len(t))
    IN  [i \in 1..Len(order) |->
            [topic_number |-> order[i],
             title |-> TitleLookup(csv, order[i]),
             content |-> Slice(t, sp[i].start, sp[i].end)]]

\* the lowest known boundary, whether or not it lies after offset
LowestBoundary(known, offset, n) == IF known = {} THEN n ELSE Min(known)

\* the next known boundary greater than offset, or len(text)
NextBoundary(known, offset, n) ==
    LET later == {o \in known : o > offset}
    IN  IF later = {} THEN n ELSE Min(later)

\* recover_missing without its test that the number is still missing
RecoverOneUnchecked(st, t, csv, parent_start, m) ==
    LET offset == parent_start + m.start
        known == {st.spans[i].start : i \in 1..Len(st.spans)}
        end == NextBoundary(known, offset, Len(t))
    IN  [topics |-> Append(st.topics,
                        [topic_number |-> m.num,
                         title |-> TitleLookup(csv, m.num),
                         content |-> Slice(t, offset, end)]),
         spans |-> Append(st.spans, [start |-> offset, end |-> end]),
         missing |-> st.missing \ {m.num}]

\* recover_missing that leaves a recovered number in the missing set
RecoverOneKeepingMissing(st, t, csv, parent_start, m) ==
    IF m.num \notin st.missing THEN st
    ELSE LET offset == parent_start + m.start
             known == {st.spans[i].start : i \in 1..Len(st.spans)}
             end == NextBoundary(known, offset, Len(t))
         IN  [topics |-> Append(st.topics,
                             [topic_number |-> m.num,
                              title |-> TitleLookup(csv, m.num),
                              content |-> Slice(t, offset, end)]),
              spans |-> Append(st.spans, [start |-> offset, end |-> end]),
              missing |-> st.missing]

\* recover_missing, one match m inside a parent's content: a still-missing
\* number gets a new record from the absolute offset of the match to the next
\* known boundary, and leaves the missing set
RecoverOne(st, t, csv, parent_start, m) ==
    IF m.num \notin st.missing THEN st
    ELSE LET offset == parent_start + m.start
             known == {st.spans[i].start : i \in 1..Len(st.spans)}
             end == NextBoundary(known, offset, Len(t))
         IN  [topics |-> Append(st.topics,
                             [topic_number |-> m.num,
                              title |-> TitleLookup(csv, m.num),
                              content |-> Slice(t, offset, end)]),
              spans |-> Append(st.spans, [start |-> offset, end |-> end]),
              missing |-> st.missing \ {m.num}]

\* recover_missing over the matches ms found in one parent's content
RECURSIVE RecoverFrom(_, _, _, _, _)
RecoverFrom(st, t, csv, parent_start, ms) ==
    IF ms = <<>> THEN st
    ELSE RecoverFrom(RecoverOne(st, t, csv, parent_start, Head(ms)),
                     t, csv, parent_start, Tail(ms))

\* chapters whose first topic has two body lines before the other pieces, so
\* that what follows the body lies in the last fifth of the text; the topic
\* starts the text or follows a title line, and what follows the body is
\* made of digits, dots, blanks and line breaks
LongChapterTexts ==
    UNION {{title \o N2 \o Filler \o Filler \o Flatten(ps) :
              ps \in [1..k -> Pieces \ {Filler, <<"-">>, <<"a">>}],
              title \in {<<>>, <<"a", "\n">>}} :
           k \in 1..(MaxPieces - 1)}

\* the engine is given normalized text
EngineTexts ==
    {NormalizeWhitespaceOf(RemoveHyphenBreaks(t)) : t \in Texts \cup LongChapterTexts}
        \ {<<>>}

InitEngine ==
    /\ ocr_text \in EngineTexts
    /\ topics_from_csv \in RefTables
    /\ pc = "primary"
    /\ matches = <<>>
    /\ topic_locations = EmptyDict
    /\ index = 0
    /\ extracted_topics = <<>>
    /\ spans = <<>>
    /\ missing = {}
    /\ primary_missing = {}
    /\ primary_topics = <<>>
    /\ raw_text = <<>>
    /\ normalized = <<>>
    /\ questions = <<>>
    /\ calls = <<>>
    /\ MainIdle
    /\ PagesIdle

\* extract_primary, with the report of the expected numbers not located
PrimaryPass ==
    /\ pc = "primary"
    /\ LET ms == ScanMatches(ocr_text, TopicNumbers(topics_from_csv), 1)
           locs == ExtractPrimary(ms, Len(ocr_text))
       IN  /\ matches' = ms
           /\ topic_locations' = locs
           /\ missing' = Expected(topics_from_csv) \ DOMAIN locs
           /\ primary_missing' = Expected(topics_from_csv) \ DOMAIN locs
    /\ pc' = "segment"
    /\ UNCHANGED <<ocr_text, topics_from_csv, index, extracted_topics, spans,
                   primary_topics>>
    /\ UNCHANGED notEngine

\* segment
Segmentation ==
    /\ pc = "segment"
    /\ extracted_topics' = SegmentTopics(ocr_text, topic_locations, topics_from_csv)
    /\ spans' = SegmentSpans(topic_locations, Len(ocr_text))
    /\ primary_topics' = extracted_topics'
    /\ pc' = "recover"
    /\ UNCHANGED <<ocr_text, topics_from_csv, matches, topic_locations, index,
                   missing, primary_missing>>
    /\ UNCHANGED notEngine

\* recover_missing: the next TopicRecord of the input list is searched
RecoverInParent ==
    /\ pc = "recover"
    /\ index < Len(primary_topics)
    /\ LET parent == primary_topics[index + 1]
           ms == ScanMatches(parent.content, TopicNumbers(topics_from_csv), 1)
           st == RecoverFrom([topics |-> extracted_topics, spans |-> spans,
                              missing |-> missing],
                             ocr_text, topics_from_csv, spans[index + 1].start, ms)
       IN  /\ extracted_topics' = st.topics
           /\ spans' = st.spans
           /\ missing' = st.missing
    /\ index' = index + 1
    /\ UNCHANGED <<ocr_text, topics_from_csv, pc, matches, topic_locations,
                   primary_missing, primary_topics>>
    /\ UNCHANGED notEngine

\* recover_missing returns: the numbers still missing are only reported
RecoverDone ==
    /\ pc = "recover"
    /\ index = Len(primary_topics)
    /\ pc' = "engine_done"
    /\ UNCHANGED <<ocr_text, topics_from_csv, matches, topic_locations, index,
                   extracted_topics, spans, missing, primary_missing, primary_topics>>
    /\ UNCHANGED notEngine

NextEngine == PrimaryPass \/ Segmentation \/ RecoverInParent \/ RecoverDone

SpecEngine == InitEngine /\ [][NextEngine]_vars

EngineDone == pc = "engine_done"

\* the pattern of the number n matches somewhere in t
MatchesSomewhere(t, n) == \E i \in 1..Len(t) : NumberMatchEnd(t, i, n) # 0

RecoveredIndices == (Len(primary_topics) + 1)..Len(extracted_topics)

InFallback == pc \in {"recover", "engine_done"}

PrimaryNumbers == {primary_topics[i].topic_number : i \in 1..Len(primary_topics)}

-----------------------------------------------------------------------------
(* SyllabusExplorer and QuizView *)

\* at most MaxRequests generate-content requests are sent in one run
MaxRequests == 2

\* null, for a state that holds a name
Null == "null"

\* null, for a state that holds an object
NullData == <<>>

\* the syllabus served by /api/syllabus: subjects, their chapters, their topics
Subjects == <<"s1", "s2">>
ChaptersOf == [s \in {"s1", "s2"} |-> IF s = "s1" THEN {"c1", "c2"} ELSE {"c3"}]
TopicsOf ==
    [c \in {"c1", "c2", "c3"} |->
        IF c = "c1" THEN {"t1", "t2"} ELSE IF c = "c2" THEN {"t3"} ELSE {"t4"}]

Modes == {"explain", "revise", "practice"}

\* the option keys of a quiz
Options == {"A", "B"}

\* useState(...) of SyllabusExplorer, with the requests still in flight
ExplorerMounted ==
    [syllabus |-> <<>>, isLoadingSyllabus |-> TRUE, error |-> Null,
     selectedSubject |-> Null, selectedChapter |-> Null, selectedTopic |-> Null,
     content |-> NullData, contentType |-> Null, isLoadingContent |-> FALSE,
     activeMode |-> Null, sourceName |-> "", sent |-> 0, requests |-> {}]

\* useState(...) of QuizView
QuizMounted == [selectedAnswer |-> Null, isRevealed |-> FALSE]

resetContent(e) ==
    [e EXCEPT !.content = NullData, !.contentType = Null, !.error = Null,
              !.sourceName = ""]

handleSubjectClick(e, subject) ==
    [resetContent(e) EXCEPT !.selectedSubject = subject, !.selectedChapter = Null,
                            !.selectedTopic = Null, !.activeMode = Null]

\* a chapter click that leaves the selected topic as it is
handleChapterClickKeepingTopic(e, chapter) ==
    [resetContent(e) EXCEPT !.selectedChapter = chapter, !.activeMode = Null]

handleChapterClick(e, chapter) ==
    [resetContent(e) EXCEPT !.selectedChapter = chapter, !.selectedTopic = Null,
                            !.activeMode = Null]

handleTopicClick(e, topic) ==
    [resetContent(e) EXCEPT !.selectedTopic = topic, !.activeMode = Null]

\* fetchContent up to its await: the request leaves with the topic and the
\* mode of the call
fetchContent(e, topic, mode) ==
    [resetContent(e) EXCEPT !.isLoadingContent = TRUE, !.activeMode = mode,
                            !.sent = e.sent + 1,
                            !.requests = e.requests \cup
                                {[id |-> e.sent + 1, topic |-> topic, mode |-> mode]}]

\* the page shows the three panes: neither the spinner nor the error screen
PanesShown(e) ==
    /\ ~e.isLoadingSyllabus
    /\ ~(e.error # Null /\ e.content = NullData)

\* QuizView is part of the rendered page
QuizShown(e) ==
    /\ PanesShown(e)
    /\ e.selectedTopic # Null
    /\ e.content # NullData
    /\ e.contentType = "practice"

\* a QuizView that keeps its state when quizData changes
QuizEffectMissing(q) == q

\* the effect of QuizView on a change of quizData
QuizEffect(q) == [q EXCEPT !.selectedAnswer = Null, !.isRevealed = FALSE]

\* the QuizView after the page has rendered e2 in place of e
RenderQuiz(e, e2, q) ==
    IF ~QuizShown(e2) THEN Unmounted
    ELSE IF q = Unmounted THEN QuizMounted
    ELSE IF e2.content # e.content THEN QuizEffect(q)
    ELSE q

InitExplorer ==
    /\ explorer = ExplorerMounted
    /\ quizView = Unmounted
    /\ authApp = Unmounted
    /\ localStorage = {}
    /\ solver = Unmounted
    /\ generator = Unmounted
    /\ dashboard = Unmounted
    /\ ScriptsIdle

\* what SyllabusExplorer does not touch
notExplorer == <<scriptVars, authApp, localStorage, solver, generator, dashboard>>

\* the explorer renders e2, and QuizView with it
Render(e2) ==
    /\ explorer' = e2
    /\ quizView' = RenderQuiz(explorer, e2, quizView)
    /\ UNCHANGED notExplorer

\* fetchSyllabus: the response arrives
SyllabusLoaded ==
    /\ explorer.isLoadingSyllabus
    /\ \E data \in {<<>>, Subjects} :
           Render([explorer EXCEPT
                      !.syllabus = data,
                      !.selectedSubject = IF Len(data) > 0 THEN data[1] ELSE Null,
                      !.isLoadingSyllabus = FALSE])

\* fetchSyllabus: the request fails
SyllabusFailed ==
    /\ explorer.isLoadingSyllabus
    /\ Render([explorer EXCEPT !.error = "HTTP error", !.isLoadingSyllabus = FALSE])

SubjectClick ==
    /\ PanesShown(explorer)
    /\ \E i \in 1..Len(explorer.syllabus) :
           Render(handleSubjectClick(explorer, explorer.syllabus[i]))

ChapterClick ==
    /\ PanesShown(explorer)
    /\ explorer.selectedSubject # Null
    /\ \E chapter \in ChaptersOf[explorer.selectedSubject] :
           Render(handleChapterClick(explorer, chapter))

TopicClick ==
    /\ PanesShown(explorer)
    /\ explorer.selectedChapter # Null
    /\ \E topic \in TopicsOf[explorer.selectedChapter] :
           Render(handleTopicClick(explorer, topic))

\* one of the buttons Learn, Revise, Practice
ModeClick ==
    /\ PanesShown(explorer)
    /\ explorer.selectedTopic # Null
    /\ explorer.sent < MaxRequests
    /\ \E mode \in Modes :
           Render(fetchContent(explorer, explorer.selectedTopic, mode))

\* the button Next Question of QuizView
NextQuestion ==
    /\ quizView # Unmounted
    /\ explorer.sent < MaxRequests
    /\ Render(fetchContent(explorer, explorer.selectedTopic, "practice"))

\* fetchContent after its await: the response to request r is ok
ContentArrives ==
    \E r \in explorer.requests, source_name \in {"", "ncert"} :
        Render([explorer EXCEPT
                   !.requests = explorer.requests \ {r},
                   !.sourceName = source_name,
                   !.content = r,
                   !.contentType = r.mode,
                   !.isLoadingContent = FALSE])

\* fetchContent after its await: request r fails or its response is not ok
ContentFails ==
    \E r \in explorer.requests :
        Render([explorer EXCEPT
                   !.requests = explorer.requests \ {r},
                   !.error = "HTTP error",
                   !.isLoadingContent = FALSE])

\* an option button of QuizView
AnswerClick ==
    /\ quizView # Unmounted
    /\ \E optionKey \in Options :
           quizView' = IF ~quizView.isRevealed
                       THEN [quizView EXCEPT !.selectedAnswer = optionKey]
                       ELSE quizView
    /\ UNCHANGED <<explorer, notExplorer>>

\* the button Check Answer, disabled={!selectedAnswer || isRevealed}
CheckAnswer ==
    /\ quizView # Unmounted
    /\ ~(quizView.selectedAnswer = Null \/ quizView.isRevealed)
    /\ quizView' = [quizView EXCEPT !.isRevealed = TRUE]
    /\ UNCHANGED <<explorer, notExplorer>>

NextExplorer ==
    \/ SyllabusLoaded
    \/ SyllabusFailed
    \/ SubjectClick
    \/ ChapterClick
    \/ TopicClick
    \/ ModeClick
    \/ NextQuestion
    \/ ContentArrives
    \/ ContentFails
    \/ AnswerClick
    \/ CheckAnswer

SpecExplorer == InitExplorer /\ [][NextExplorer]_vars

\* C22 as stated: the content shown belongs to the selected topic and the
\* active mode, and so do contentType and the source fields: a response to
\* an earlier request never sets them.
ContentBelongsToSelection ==
    /\ explorer.content # NullData =>
           /\ explorer.content.topic = explorer.selectedTopic
           /\ explorer.content.mode = explorer.activeMode
           /\ explorer.contentType = explorer.activeMode
    /\ explorer.sourceName # "" => explorer.content # NullData

\* a selected topic belongs to the selected chapter, a selected chapter to the
\* selected subject
SelectionConsistent(e) ==
    /\ e.selectedTopic # Null =>
           /\ e.selectedChapter # Null
           /\ e.selectedTopic \in TopicsOf[e.selectedChapter]
    /\ e.selectedChapter # Null =>
           /\ e.selectedSubject # Null
           /\ e.selectedChapter \in ChaptersOf[e.selectedSubject]

\* content, error and the active mode are cleared
Cleared(e) == e.content = NullData /\ e.error = Null /\ e.activeMode = Null

\* C29: after every step the selected topic belongs to the selected chapter
\* and the selected chapter to the selected subject; a subject click clears
\* the chapter and the topic, a chapter click clears the topic, and each of
\* the three clicks clears content, error and the active mode.
ClicksKeepSelectionConsistent ==
    [][/\ SelectionConsistent(explorer')
       /\ SubjectClick =>
              /\ explorer'.selectedChapter = Null
              /\ explorer'.selectedTopic = Null
              /\ Cleared(explorer')
       /\ ChapterClick =>
              /\ explorer'.selectedTopic = Null
              /\ Cleared(explorer')
       /\ TopicClick => Cleared(explorer')]_vars

\* C29 witness: the topic of the second subject is selected, after a click on
\* each pane, and nothing is shown for it yet.
ClicksKeepSelectionConsistentWitness ==
    /\ explorer.selectedSubject = "s2"
    /\ explorer.selectedChapter = "c3"
    /\ explorer.selectedTopic = "t4"
    /\ Cleared(explorer)
    /\ explorer.sent > 0

\* C30: a revealed answer has a selected option; while the quiz data stay the
\* same a revealed QuizView keeps its selected option; and when new quiz data
\* arrive the QuizView shown has no selection and is not revealed.
QuizRules ==
    [][/\ (quizView' # Unmounted /\ quizView'.isRevealed) =>
              quizView'.selectedAnswer # Null
       /\ (/\ quizView # Unmounted
           /\ quizView' # Unmounted
           /\ quizView.isRevealed
           /\ explorer'.content = explorer.content) =>
              quizView' = quizView
       /\ (quizView' # Unmounted /\ explorer'.content # explorer.content) =>
              quizView' = QuizMounted]_vars

\* C30 witness: the answer of a quiz is revealed while the response to a
\* second practice request is still to come.
QuizRulesWitness ==
    /\ quizView # Unmounted
    /\ quizView.isRevealed
    /\ \E r \in explorer.requests : r.mode = "practice"

-----------------------------------------------------------------------------
(* AuthProvider, ProtectedRoute, AuthPage and the logout of AppContent *)

\* at most MaxLogins sign-in forms are submitted in one run
MaxLogins == 2

\* the accounts of the Firebase project, named by their emailVerified flag
Accounts == {"verified", "unverified"}

\* the application as the browser opens it at route: user is auth.currentUser
\* of Firebase, notify the calls of the onAuthStateChanged listener still to
\* come, submit the sign-in handleSubmit is waiting for, tokens the number of
\* getIdToken promises not yet resolved
AuthMounted(user, route) ==
    [user |-> user, notify |-> <<user>>, currentUser |-> Null, loading |-> TRUE,
     route |-> route, page |-> "Loading", submit |-> Null, message |-> "",
     showResend |-> FALSE, tokens |-> 0, logins |-> 0]

\* a ProtectedRoute that does not look at currentUser
ProtectedRouteWithoutUser(a) ==
    IF a.loading THEN "Loading" ELSE "children"

\* what ProtectedRoute returns
ProtectedRoute(a) ==
    IF a.loading THEN "Loading"
    ELSE IF a.currentUser = Null THEN "Navigate"
    ELSE "children"

\* the application after rendering a: AppContent shows its placeholder while
\* loading; AuthPage navigates to "/" when there is a current user;
\* ProtectedRoute navigates to "/auth" when there is none
Rendered(a) ==
    IF a.loading THEN [a EXCEPT !.page = "Loading"]
    ELSE IF a.route = "/auth"
         THEN IF a.currentUser # Null
              THEN [a EXCEPT !.route = "/", !.page = ProtectedRoute([a EXCEPT !.route = "/"])]
              ELSE [a EXCEPT !.page = "AuthPage"]
    ELSE IF ProtectedRoute(a) = "Navigate"
         THEN [a EXCEPT !.route = "/auth", !.page = "AuthPage"]
         ELSE [a EXCEPT !.page = ProtectedRoute(a)]

InitAuth ==
    /\ \E user \in {Null, "verified"}, route \in {"/", "/auth"} :
           authApp = AuthMounted(user, route)
    /\ localStorage \in SUBSET {"user", "userToken"}
    /\ explorer = Unmounted
    /\ quizView = Unmounted
    /\ solver = Unmounted
    /\ generator = Unmounted
    /\ dashboard = Unmounted
    /\ ScriptsIdle

\* what the authentication code does not touch
notAuth == <<scriptVars, explorer, quizView, solver, generator, dashboard>>

\* the listener of onAuthStateChanged is called with the next user
AuthStateChanged ==
    /\ authApp.notify # <<>>
    /\ LET user == Head(authApp.notify)
       IN  /\ authApp' = Rendered([authApp EXCEPT
                             !.notify = Tail(authApp.notify),
                             !.currentUser = user,
                             !.loading = FALSE,
                             !.tokens = IF user # Null THEN @ + 1 ELSE @])
           /\ localStorage' = IF user # Null THEN localStorage \cup {"user"}
                              ELSE localStorage \ {"user", "userToken"}
    /\ UNCHANGED notAuth

\* user.getIdToken().then(token => localStorage.setItem('userToken', token))
TokenResolves ==
    /\ authApp.tokens > 0
    /\ authApp' = [authApp EXCEPT !.tokens = @ - 1]
    /\ localStorage' = localStorage \cup {"userToken"}
    /\ UNCHANGED notAuth

\* handleSubmit of the login form up to its await: Firebase signs the account
\* in whatever its emailVerified flag, or rejects the password
Submit ==
    /\ authApp.page = "AuthPage"
    /\ authApp.submit = Null
    /\ authApp.logins < MaxLogins
    /\ \E outcome \in Accounts \cup {"error"} :
           authApp' = [authApp EXCEPT
                          !.message = "", !.showResend = FALSE,
                          !.submit = outcome,
                          !.logins = @ + 1,
                          !.user = IF outcome \in Accounts THEN outcome ELSE @,
                          !.notify = IF outcome \in Accounts
                                     THEN Append(@, outcome) ELSE @]
    /\ UNCHANGED <<localStorage, notAuth>>

\* handleSubmit after its await
SubmitResumes ==
    /\ authApp.submit # Null
    /\ authApp' =
           IF authApp.submit = "error"
           THEN [authApp EXCEPT !.submit = Null, !.message = "Invalid email or password."]
           ELSE IF authApp.submit = "unverified"
           THEN [authApp EXCEPT !.submit = Null, !.showResend = TRUE,
                                !.message = "Email not verified."]
           ELSE Rendered([authApp EXCEPT !.submit = Null, !.route = "/"])
    /\ UNCHANGED <<localStorage, notAuth>>

\* handleLogout of AppContent: auth.signOut() of the signed-in user, then
\* navigate('/auth')
Logout ==
    /\ ~authApp.loading
    /\ authApp.currentUser # Null
    /\ authApp.user # Null
    /\ authApp' = Rendered([authApp EXCEPT !.user = Null,
                                           !.notify = Append(@, Null),
                                           !.route = "/auth"])
    /\ UNCHANGED <<localStorage, notAuth>>

\* a Link of the navigation bar
GoTo ==
    /\ ~authApp.loading
    /\ \E route \in {"/", "/auth"} :
           authApp' = Rendered([authApp EXCEPT !.route = route])
    /\ UNCHANGED <<localStorage, notAuth>>

NextAuth ==
    \/ AuthStateChanged
    \/ TokenResolves
    \/ Submit
    \/ SubmitResumes
    \/ Logout
    \/ GoTo

SpecAuth == InitAuth /\ [][NextAuth]_vars

\* C23 as stated: an account whose email is not verified, signed in on
\* AuthPage, is never taken from /auth to the dashboard route "/".
UnverifiedStaysOnAuthPage ==
    [][(authApp'.user = "unverified" /\ authApp.route = "/auth") =>
           authApp'.route = "/auth"]_vars

\* C24: the children of ProtectedRoute are on the page only when the auth
\* state has finished loading and currentUser is not null; while loading the
\* page is a placeholder, and without a user the route is /auth.
ProtectedPageHasUser ==
    /\ authApp.page = "children" =>
           /\ ~authApp.loading
           /\ authApp.currentUser # Null
           /\ authApp.route = "/"
    /\ authApp.loading => authApp.page = "Loading"
    /\ (~authApp.loading /\ authApp.currentUser = Null) =>
           /\ authApp.route = "/auth"
           /\ authApp.page = "AuthPage"

\* C24 witness: a user has signed out from the protected page and the
\* listener has handled it: the route is /auth again.
ProtectedPageHasUserWitness ==
    /\ ~authApp.loading
    /\ authApp.currentUser = Null
    /\ authApp.notify = <<>>
    /\ authApp.logins > 0
    /\ authApp.user = Null
    /\ authApp.page = "AuthPage"

\* C26 as stated: once the listener has handled a sign-out, localStorage
\* holds neither "user" nor "userToken".
SignedOutStorageIsClean ==
    (~authApp.loading /\ authApp.currentUser = Null) =>
        localStorage \cap {"user", "userToken"} = {}

-----------------------------------------------------------------------------
(* ImageSolver *)

\* at most MaxSubmissions submissions are made on one page in one run
MaxSubmissions == 4

\* useState(...) of ImageSolver, with the FileReaders of handleBase64Submit
\* still reading, the requests in flight and the number of submissions
SolverMounted ==
    [selectedImage |-> Null, question |-> "", answer |-> "", isLoading |-> FALSE,
     error |-> Null, reading |-> 0, base64 |-> 0, multipart |-> 0, submitted |-> 0]

\* the two submit buttons are enabled
SolveEnabled(v) == ~(v.isLoading \/ v.selectedImage = Null \/ v.question = "")

InitSolver ==
    /\ solver = SolverMounted
    /\ explorer = Unmounted
    /\ quizView = Unmounted
    /\ authApp = Unmounted
    /\ localStorage = {}
    /\ generator = Unmounted
    /\ dashboard = Unmounted
    /\ ScriptsIdle

\* what ImageSolver does not touch
notSolver == <<scriptVars, explorer, quizView, authApp, localStorage, generator,
               dashboard>>

handleImageChange ==
    /\ solver' = [solver EXCEPT !.selectedImage = "image", !.error = Null]
    /\ UNCHANGED notSolver

\* onChange of the question textarea
QuestionChange ==
    /\ \E text \in {"", "q"} : solver' = [solver EXCEPT !.question = text]
    /\ UNCHANGED notSolver

\* handleSubmit up to its await
handleSubmit ==
    /\ SolveEnabled(solver)
    /\ solver.submitted < MaxSubmissions
    /\ solver' = [solver EXCEPT !.isLoading = TRUE, !.error = Null, !.answer = "",
                                !.multipart = @ + 1, !.submitted = @ + 1]
    /\ UNCHANGED notSolver

\* handleSubmit after its await: the answer, or the catch block; then finally
MultipartDone ==
    /\ solver.multipart > 0
    /\ \E ok \in BOOLEAN :
           solver' = IF ok
                     THEN [solver EXCEPT !.multipart = @ - 1, !.answer = "answer",
                                         !.selectedImage = Null, !.question = "",
                                         !.isLoading = FALSE]
                     ELSE [solver EXCEPT !.multipart = @ - 1,
                                         !.error = "Failed to solve image problem.",
                                         !.isLoading = FALSE]
    /\ UNCHANGED notSolver

\* handleBase64Submit: the reader is started inside try, and finally runs
\* when readAsDataURL has returned
handleBase64Submit ==
    /\ SolveEnabled(solver)
    /\ solver.submitted < MaxSubmissions
    /\ solver' = [solver EXCEPT !.error = Null, !.answer = "",
                                !.reading = @ + 1, !.submitted = @ + 1,
                                !.isLoading = FALSE]
    /\ UNCHANGED notSolver

\* reader.onload up to its await: the base64 request leaves
ReaderLoaded ==
    /\ solver.reading > 0
    /\ solver' = [solver EXCEPT !.reading = @ - 1, !.base64 = @ + 1]
    /\ UNCHANGED notSolver

\* reader.onload after its await: the answer, or an exception that nothing
\* catches
Base64Done ==
    /\ solver.base64 > 0
    /\ \E ok \in BOOLEAN :
           solver' = IF ok
                     THEN [solver EXCEPT !.base64 = @ - 1, !.answer = "answer",
                                         !.selectedImage = Null, !.question = ""]
                     ELSE [solver EXCEPT !.base64 = @ - 1]
    /\ UNCHANGED notSolver

NextSolver ==
    \/ handleImageChange
    \/ QuestionChange
    \/ handleSubmit
    \/ MultipartDone
    \/ handleBase64Submit
    \/ ReaderLoaded
    \/ Base64Done

SpecSolver == InitSolver /\ [][NextSolver]_vars

\* C25 as stated: isLoading is true from the start of a base64 submission
\* until its request has been answered or has failed.
LoadingWhileBase64InFlight ==
    (solver.reading > 0 \/ solver.base64 > 0) => solver.isLoading

-----------------------------------------------------------------------------
(* ProblemGenerator, the version that calls fetch *)

\* useState(...) of ProblemGenerator, with the requests in flight and the
\* number of submissions
GeneratorMounted ==
    [prompt |-> "Thermodynamics", generatedProblem |-> "", isLoading |-> FALSE,
     error |-> Null, requests |-> 0, submitted |-> 0]

InitGenerator ==
    /\ generator = GeneratorMounted
    /\ explorer = Unmounted
    /\ quizView = Unmounted
    /\ authApp = Unmounted
    /\ localStorage = {}
    /\ solver = Unmounted
    /\ dashboard = Unmounted
    /\ ScriptsIdle

\* what ProblemGenerator does not touch
notGenerator == <<scriptVars, explorer, quizView, authApp, localStorage, solver,
                  dashboard>>

\* onChange of the topic input
PromptChange ==
    /\ \E text \in {"", "Thermodynamics", "Kinematics"} :
           generator' = [generator EXCEPT !.prompt = text]
    /\ UNCHANGED notGenerator

\* handleSubmit of ProblemGenerator up to its await, or up to its early
\* return; the submit button is disabled while isLoading
SubmitPrompt ==
    /\ ~generator.isLoading
    /\ generator.submitted < MaxSubmissions
    /\ generator' =
           IF generator.prompt = ""
           THEN [generator EXCEPT !.error = "Please enter a topic.",
                                  !.submitted = @ + 1]
           ELSE [generator EXCEPT !.isLoading = TRUE, !.error = Null,
                                  !.generatedProblem = "",
                                  !.requests = @ + 1, !.submitted = @ + 1]
    /\ UNCHANGED notGenerator

\* handleSubmit of ProblemGenerator after its await: the generated text, or
\* the catch block; then finally
ProblemDone ==
    /\ generator.requests > 0
    /\ \/ \E generated_text \in {"", "problem 1", "problem 2"} :
              generator' = [generator EXCEPT !.requests = @ - 1,
                                             !.generatedProblem = generated_text,
                                             !.isLoading = FALSE]
       \/ \E message \in {"HTTP error! status: 500", "Failed to fetch"} :
              generator' = [generator EXCEPT !.requests = @ - 1,
                                             !.error = message,
                                             !.isLoading = FALSE]
    /\ UNCHANGED notGenerator

NextGenerator == PromptChange \/ SubmitPrompt \/ ProblemDone

SpecGenerator == InitGenerator /\ [][NextGenerator]_vars

\* C27 as stated: an error message and a generated problem are never shown
\* together, and isLoading is false when no submission is running.
ErrorExcludesProblem ==
    /\ generator.error # Null => generator.generatedProblem = ""
    /\ generator.requests = 0 => ~generator.isLoading

-----------------------------------------------------------------------------
(* Dashboard: the subject list *)

\* at most MaxUploads files are chosen in one run
MaxUploads == 2

\* the trimmed, non-empty lines of the text files a user may choose
SubjectFiles ==
    {<<"Maths">>, <<"Physics">>, <<"Maths", "Maths">>, <<"Maths", "Physics">>}

\* the names of a subject list
Names(list) == {list[i].name : i \in 1..Len(list)}

\* a new subject
Subject(name) == [name |-> name, progress |-> 0, notes |-> ""]

\* lines.filter(name => !subjects.some(s => s.name === name)).map(...)
RECURSIVE uniqueNewSubjects(_, _)
uniqueNewSubjects(lines, list) ==
    IF lines = <<>> THEN <<>>
    ELSE IF Head(lines) \in Names(list)
         THEN uniqueNewSubjects(Tail(lines), list)
         ELSE <<Subject(Head(lines))>> \o uniqueNewSubjects(Tail(lines), list)

\* prev.filter((_, i) => i !== index), for the k-th subject
RemoveAt(list, k) ==
    [i \in 1..(Len(list) - 1) |-> IF i < k THEN list[i] ELSE list[i + 1]]

\* the Dashboard with the subjects saved in localStorage; reads holds, for
\* every FileReader still reading, the lines of its file and the subjects of
\* the render whose handleUpload started it
DashboardMounted(saved) == [subjects |-> saved, reads |-> {}, uploads |-> 0]

InitDashboard ==
    /\ \E saved \in {<<>>, <<Subject("Maths")>>} : dashboard = DashboardMounted(saved)
    /\ explorer = Unmounted
    /\ quizView = Unmounted
    /\ authApp = Unmounted
    /\ localStorage = {}
    /\ solver = Unmounted
    /\ generator = Unmounted
    /\ ScriptsIdle

\* what the Dashboard does not touch
notDashboard == <<scriptVars, explorer, quizView, authApp, localStorage, solver,
                  generator>>

\* handleUpload: the reader is started
handleUpload ==
    /\ dashboard.uploads < MaxUploads
    /\ \E lines \in SubjectFiles :
           dashboard' = [dashboard EXCEPT
                            !.uploads = @ + 1,
                            !.reads = @ \cup {[id |-> dashboard.uploads + 1,
                                               lines |-> lines,
                                               subjects |-> dashboard.subjects]}]
    /\ UNCHANGED notDashboard

\* reader.onload: setSubjects(prev => [...prev, ...uniqueNewSubjects])
UploadRead ==
    /\ \E read \in dashboard.reads :
           dashboard' = [dashboard EXCEPT
                            !.reads = @ \ {read},
                            !.subjects = @ \o uniqueNewSubjects(read.lines, read.subjects)]
    /\ UNCHANGED notDashboard

deleteSubject ==
    /\ \E k \in 1..Len(dashboard.subjects) :
           dashboard' = [dashboard EXCEPT !.subjects = RemoveAt(@, k)]
    /\ UNCHANGED notDashboard

NextDashboard == handleUpload \/ UploadRead \/ deleteSubject

SpecDashboard == InitDashboard /\ [][NextDashboard]_vars

\* C28 as stated: no two subjects of the list have the same name.
SubjectNamesUnique ==
    \A i, j \in 1..Len(dashboard.subjects) :
        dashboard.subjects[i].name = dashboard.subjects[j].name => i = j

====
